---- MODULE Spec2Model ----
(***************************************************************************)
(* Model of homeassistant/components/google_photos/media_source.py:        *)
(* the PhotosIdentifier codec (as_string / parse_identifier) and the       *)
(* GooglePhotosMediaSource adapter (async_browse_media and                 *)
(* async_resolve_media), one action per stretch of code between two        *)
(* await points.                                                           *)
(*                                                                         *)
(* Python strings that the code splits or concatenates are modelled as     *)
(* sequences of one-character strings, so "1/a/recent" is                  *)
(* <<"1","/","a","/","r","e","c","e","n","t">>.                            *)
(***************************************************************************)
EXTENDS Integers, Sequences, FiniteSets, TLC

\* ---------------------------------------------------------------- bounds
\* Longest raw identifier string enumerated character by character.
MaxLen == 4
\* Longest field of an identifier value enumerated character by character.
MaxFieldLen == 2
\* The ghost count of page requests saturates at this value.
MaxRequests == 3

\* ------------------------------------------------------ program constants
MAX_PHOTOS == 50
PAGE_SIZE == 100
THUMBNAIL_SIZE == 256
LARGE_IMAGE_SIZE == 2048

PHOTO_SOURCE_IDENTIFIER_PHOTO == <<"p">>
PHOTO_SOURCE_IDENTIFIER_ALBUM == <<"a">>
RECENT_PHOTOS_ALBUM == <<"r", "e", "c", "e", "n", "t">>
RECENT_PHOTOS_TITLE ==
    <<"R", "e", "c", "e", "n", "t", " ", "P", "h", "o", "t", "o", "s">>

\* Python's None where a string may stand: no character string is equal to
\* it, since "None" is not a one-character string.
None == <<"None">>

\* Python's None where an object (a record here) may stand.
NoneRecord == [none |-> TRUE]

\* Python's None where a list of objects may stand: unlike the empty list.
NoneList == <<NoneRecord>>

\* ------------------------------------------------------------ exceptions
\* The outcome of a Python call: a returned value or a raised exception.
Return(v) == [raised |-> "", value |-> v]
Raise(e) == [raised |-> e, value |-> NoneRecord]

\* ------------------------------------------------------- identifier codec
\* The dataclass PhotosIdentifier.
PhotosIdentifier(config_entry_id, album_media_id, photo_media_id) ==
    [config_entry_id |-> config_entry_id,
     album_media_id |-> album_media_id,
     photo_media_id |-> photo_media_id]

Slash == <<"/">>

\* PhotosIdentifier.as_string
as_string_swapped(self) ==
    IF self.photo_media_id = None
    THEN IF self.album_media_id = None
         THEN self.config_entry_id
         ELSE self.config_entry_id \o Slash \o PHOTO_SOURCE_IDENTIFIER_PHOTO
                  \o Slash \o self.album_media_id
    ELSE self.config_entry_id \o Slash \o PHOTO_SOURCE_IDENTIFIER_ALBUM
             \o Slash \o self.photo_media_id

as_string(self) ==
    IF self.photo_media_id = None
    THEN IF self.album_media_id = None
         THEN self.config_entry_id
         ELSE self.config_entry_id \o Slash \o PHOTO_SOURCE_IDENTIFIER_ALBUM
                  \o Slash \o self.album_media_id
    ELSE self.config_entry_id \o Slash \o PHOTO_SOURCE_IDENTIFIER_PHOTO
             \o Slash \o self.photo_media_id

\* str.split(sep) for a one-character separator: always at least one part.
RECURSIVE split(_, _)
split(s, sep) ==
    IF \E i \in 1..Len(s) : s[i] = sep
    THEN LET i == CHOOSE k \in 1..Len(s) :
                      s[k] = sep /\ \A j \in 1..(k - 1) : s[j] # sep
         IN  <<SubSeq(s, 1, i - 1)>> \o split(SubSeq(s, i + 1, Len(s)), sep)
    ELSE <<s>>

\* parse_identifier
parse_identifier(identifier) ==
    LET parts == split(identifier, "/")
    IN  IF Len(parts) = 1
        THEN Return(PhotosIdentifier(parts[1], None, None))
        ELSE IF Len(parts) # 3
        THEN Raise("BrowseError")
        ELSE IF parts[2] = PHOTO_SOURCE_IDENTIFIER_PHOTO
        THEN Return(PhotosIdentifier(parts[1], None, parts[3]))
        ELSE Return(PhotosIdentifier(parts[1], parts[3], None))

\* ------------------------------------------------------------ decimal text
DigitChars == <<"0", "1", "2", "3", "4", "5", "6", "7", "8", "9">>

\* str(n) for a natural number n.
RECURSIVE Digits(_)
Digits(n) ==
    IF n < 10 THEN <<DigitChars[n + 1]>>
    ELSE Digits(n \div 10) \o <<DigitChars[(n % 10) + 1]>>

\* --------------------------------------------------------- remote library
\* The k-th media item of the remote library, as the API client returns it:
\* the "mediaMetadata" dictionary is flattened, and video says whether it
\* has a "video" key.  The six combinations of video / orientation recur.
Item(k) ==
    [id |-> Digits(k),
     filename |-> <<"f">> \o Digits(k),
     mimeType |-> IF k % 2 = 0 THEN "video/mp4" ELSE "image/jpeg",
     baseUrl |-> <<"u">> \o Digits(k),
     video |-> (k % 2 = 0),
     width |-> IF k % 3 = 0 THEN 100 ELSE 200,
     height |-> IF k % 3 = 1 THEN 100 ELSE 200]

\* Numbers of items a page may carry (at most PAGE_SIZE).
PageLens == {0, 25, 49, PAGE_SIZE}

\* Continuation tokens the remote may hand out.
Tokens == {<<"t", "1">>, <<"t", "2">>}

\* The page of n items that follows the first `cursor` items of the library.
Page(cursor, n) == [i \in 1..n |-> Item(cursor + i)]

ApiError == [error |-> TRUE, mediaItems |-> <<>>, nextPageToken |-> None]

\* What client.list_media_items may answer: GooglePhotosApiError, or a page
\* with or without a "nextPageToken".
ListResponses(cursor) ==
    {ApiError} \cup
    {[error |-> FALSE, mediaItems |-> Page(cursor, n), nextPageToken |-> t] :
        n \in PageLens, t \in Tokens \cup {None}}

\* What client.get_media_item may answer for media_item_id: an error, or an
\* item of any of the six kinds carrying that id.
GetResponses(media_item_id) ==
    {[error |-> TRUE, item |-> NoneRecord]} \cup
    {[error |-> FALSE, item |-> [Item(k) EXCEPT !.id = media_item_id]] :
        k \in 1..6}

\* ------------------------------------------------------------ url helpers
\* A _media_url that takes the height for square items too.
_media_url_square(media_item, max_size) ==
    LET width == media_item.width
        height == media_item.height
        key == IF height >= width THEN "h" ELSE "w"
    IN  media_item.baseUrl \o <<"=", key>> \o Digits(max_size)

\* _media_url
_media_url(media_item, max_size) ==
    LET width == media_item.width
        height == media_item.height
        key == IF height > width THEN "h" ELSE "w"
    IN  media_item.baseUrl \o <<"=", key>> \o Digits(max_size)

\* _video_url
_video_url(media_item) == media_item.baseUrl \o <<"=", "d", "v">>

\* ----------------------------------------------------------- browse nodes
\* The fields of BrowseMediaSource that this module sets.
BrowseMediaSource(identifier, media_class, media_content_type, title, can_play, can_expand, thumbnail, children) ==
    [identifier |-> identifier,
     media_class |-> media_class,
     media_content_type |-> media_content_type,
     title |-> title,
     can_play |-> can_play,
     can_expand |-> can_expand,
     thumbnail |-> thumbnail,
     children |-> children]

PlayMedia(url, mime_type) == [url |-> url, mime_type |-> mime_type]

\* _build_account
_build_account(config_entry, identifier) ==
    BrowseMediaSource(as_string(identifier), "directory", "image",
                      config_entry.title, FALSE, TRUE, None, NoneList)

\* _build_album
_build_album(title, identifier) ==
    BrowseMediaSource(as_string(identifier), "album", "album",
                      title, FALSE, TRUE, None, NoneList)

\* A _build_media_item whose nodes can all be played.
_build_media_item_playable(identifier, media_item) ==
    LET is_video == media_item.video
    IN  BrowseMediaSource(as_string(identifier),
                          IF ~is_video THEN "image" ELSE "video",
                          IF ~is_video THEN "image" ELSE "video",
                          media_item.filename, TRUE, FALSE,
                          _media_url(media_item, THUMBNAIL_SIZE), NoneList)

\* _build_media_item
_build_media_item(identifier, media_item) ==
    LET is_video == media_item.video
    IN  BrowseMediaSource(as_string(identifier),
                          IF ~is_video THEN "image" ELSE "video",
                          IF ~is_video THEN "image" ELSE "video",
                          media_item.filename, is_video, FALSE,
                          _media_url(media_item, THUMBNAIL_SIZE), NoneList)

\* --------------------------------------------------------------- registry
\* The config entries of the host: unique id and title.
Entry1 == [unique_id |-> <<"1">>, title |-> <<"H", "o", "m", "e">>]
Entry2 == [unique_id |-> <<"2">>, title |-> <<"W", "o", "r", "k">>]

\* The loaded entries, in the order async_loaded_entries yields them.
Registries == {<<>>, <<Entry1>>, <<Entry1, Entry2>>, <<Entry2, Entry1>>}

\* GooglePhotosMediaSource._async_config_entry
_async_config_entry(registry, config_entry_id) ==
    IF \E i \in 1..Len(registry) : registry[i].unique_id = config_entry_id
    THEN Return(registry[CHOOSE i \in 1..Len(registry) :
                            registry[i].unique_id = config_entry_id])
    ELSE Raise("BrowseError")

\* ------------------------------------------------------------------ state
\* registry: the host's loaded config entries.
\* call:     the browse / resolve calls of the host, each with the locals of
\*           its coroutine, its position, the request it is awaiting, its
\*           outcome, and the PhotosIdentifier objects it built for the nodes
\*           it returned.
\* remote:   what the remote client saw of each call: the requests it got
\*           and the answers it gave.
\* codec:    an identifier value or string handed to the codec on its own.
VARIABLES registry, call, remote, codec

vars == <<registry, call, remote, codec>>

Calls == {1, 2}

Min(a, b) == IF a < b THEN a ELSE b

\* A call the host has not made yet.
IdleCall ==
    [pc |-> "idle", op |-> "none", item |-> None,
     identifier |-> NoneRecord, entry |-> NoneRecord,
     media_items |-> <<>>, page_token |-> None,
     request |-> NoneRecord, result |-> NoneRecord, built |-> <<>>]

\* A call the host never makes in this behaviour.
UnusedCall == [IdleCall EXCEPT !.pc = "unused"]

\* The call returns or raises: the coroutine is over.
Done(st, outcome) ==
    [st EXCEPT !.pc = "done", !.request = NoneRecord, !.result = outcome]

\* The remote client's log of one call: requests counted (the count of page
\* requests saturates at MaxRequests), requests not answered yet, items and
\* token of the answers given, the item given to get_media_item, whether it
\* answered at all and whether its last answer was an API error.
NoTraffic ==
    [nreq |-> 0, nget |-> 0, pending |-> 0, received |-> <<>>,
     last_token |-> None, fetched |-> NoneRecord,
     responded |-> FALSE, failed |-> FALSE]

\* The log after the call moved to st: a new await is a new request.
Sent(log, st) ==
    IF st.pc = "await_list"
    THEN [log EXCEPT !.nreq = Min(@ + 1, MaxRequests), !.pending = @ + 1]
    ELSE IF st.pc = "await_get"
    THEN [log EXCEPT !.nget = @ + 1, !.pending = @ + 1]
    ELSE log

\* The log after list_media_items answered resp.
Answered(log, resp) ==
    [log EXCEPT !.received = @ \o resp.mediaItems,
                !.last_token = resp.nextPageToken,
                !.pending = @ - 1,
                !.responded = TRUE,
                !.failed = resp.error]

\* The log after get_media_item answered resp.
Fetched(log, resp) ==
    [log EXCEPT !.fetched = resp.item,
                !.pending = @ - 1,
                !.responded = TRUE,
                !.failed = resp.error]

\* Where in the remote library the pages served to a call begin: the library
\* may differ from one call to the next.
Offset(c) == (c - 1) * 500

\* -------------------------------------------------- async_browse_media
\* PhotosIdentifier(cast(str, entry.unique_id))
AccountIdentifier(entry) == PhotosIdentifier(entry.unique_id, None, None)

\* An album identifier that carries the album's title instead of its id.
RecentAlbumIdentifier_titled(identifier) ==
    PhotosIdentifier(identifier.config_entry_id, RECENT_PHOTOS_TITLE, None)

\* PhotosIdentifier(identifier.config_entry_id,
\*                  album_media_id=RECENT_PHOTOS_ALBUM)
RecentAlbumIdentifier(identifier) ==
    PhotosIdentifier(identifier.config_entry_id, RECENT_PHOTOS_ALBUM, None)

\* An item identifier made by adding the item to the album's identifier.
MediaItemIdentifier_both(identifier, media_item) ==
    PhotosIdentifier(identifier.config_entry_id, identifier.album_media_id,
                     media_item.id)

\* PhotosIdentifier(identifier.config_entry_id,
\*                  photo_media_id=media_item["id"])
MediaItemIdentifier(identifier, media_item) ==
    PhotosIdentifier(identifier.config_entry_id, None, media_item.id)

\* A top level view that lists the first account only.
RootNode_first(reg) ==
    BrowseMediaSource(None, "directory", "image",
        <<"G", "o", "o", "g", "l", "e", " ", "P", "h", "o", "t", "o", "s">>,
        FALSE, TRUE, None,
        [i \in 1..Min(Len(reg), 1) |->
            _build_account(reg[i], AccountIdentifier(reg[i]))])

\* A top level view whose account nodes come with their album.
RootNode_eager(reg) ==
    BrowseMediaSource(None, "directory", "image",
        <<"G", "o", "o", "g", "l", "e", " ", "P", "h", "o", "t", "o", "s">>,
        FALSE, TRUE, None,
        [i \in 1..Len(reg) |->
            [_build_account(reg[i], AccountIdentifier(reg[i]))
             EXCEPT !.children =
                <<_build_album(RECENT_PHOTOS_TITLE,
                               RecentAlbumIdentifier(
                                   AccountIdentifier(reg[i])))>>]])

\* The top level view that lists all accounts.
RootNode(reg) ==
    BrowseMediaSource(None, "directory", "image",
        <<"G", "o", "o", "g", "l", "e", " ", "P", "h", "o", "t", "o", "s">>,
        FALSE, TRUE, None,
        [i \in 1..Len(reg) |->
            _build_account(reg[i], AccountIdentifier(reg[i]))])

\* An account view whose album child carries the account's own identifier.
AccountNode_self(entry, identifier) ==
    [_build_account(entry, identifier) EXCEPT !.children =
        <<_build_album(RECENT_PHOTOS_TITLE, identifier)>>]

\* The account view: the account's node with the one "recent" album.
AccountNode(entry, identifier) ==
    [_build_account(entry, identifier) EXCEPT !.children =
        <<_build_album(RECENT_PHOTOS_TITLE,
                       RecentAlbumIdentifier(identifier))>>]

\* Render the grid of media item results.
Render(st) ==
    Done([st EXCEPT !.built =
            <<AccountIdentifier(st.entry)>> \o
            [i \in 1..Len(st.media_items) |->
                MediaItemIdentifier(st.identifier, st.media_items[i])]],
         Return(
        [_build_account(st.entry, AccountIdentifier(st.entry))
         EXCEPT !.children =
            [i \in 1..Len(st.media_items) |->
                _build_media_item(
                    MediaItemIdentifier(st.identifier, st.media_items[i]),
                    st.media_items[i])]]))

\* The loop condition with the threshold itself still fetching.
NeedMore_inclusive(media_items) == Len(media_items) <= MAX_PHOTOS

\* The loop condition with twice the threshold.
NeedMore_double(media_items) == Len(media_items) < 2 * MAX_PHOTOS

\* The loop condition: while len(media_items) < MAX_PHOTOS.
NeedMore(media_items) == Len(media_items) < MAX_PHOTOS

\* An extend that keeps no more than the threshold.
extend_truncated(media_items, more) ==
    SubSeq(media_items \o more, 1, Min(Len(media_items \o more), MAX_PHOTOS))

\* An extend on one list that all calls share.
extend_shared(media_items, more) ==
    call[1].media_items \o call[2].media_items \o more

\* media_items.extend(result["mediaItems"])
extend(media_items, more) == media_items \o more

\* A loop head that asks for the first page every time.
FetchLoop_restart(st) ==
    IF NeedMore(st.media_items)
    THEN [st EXCEPT !.pc = "await_list",
                    !.request = [page_size |-> PAGE_SIZE,
                                 page_token |-> None]]
    ELSE Render(st)

\* The head of the while loop: either await client.list_media_items with the
\* current page_token, or leave the loop and render.
FetchLoop(st) ==
    IF NeedMore(st.media_items)
    THEN [st EXCEPT !.pc = "await_list",
                    !.request = [page_size |-> PAGE_SIZE,
                                 page_token |-> st.page_token]]
    ELSE Render(st)

\* async_browse_media from its entry to its first await or its end.
BrowseStart(reg, st, item) ==
    LET st0 == [st EXCEPT !.op = "browse", !.item = item]
    IN  IF item = <<>>
        THEN Done([st0 EXCEPT !.built =
                        [i \in 1..Len(reg) |-> AccountIdentifier(reg[i])]],
                  Return(RootNode(reg)))
        ELSE
        LET parsed == parse_identifier(item)
        IN  IF parsed.raised # ""
            THEN Done(st0, parsed)
            ELSE
            LET identifier == parsed.value
                found == _async_config_entry(reg, identifier.config_entry_id)
            IN  IF found.raised # ""
                THEN Done([st0 EXCEPT !.identifier = identifier], found)
                ELSE
                LET entry == found.value
                    st1 == [st0 EXCEPT !.identifier = identifier,
                                       !.entry = entry]
                IN  IF identifier.album_media_id = None
                    THEN Done([st1 EXCEPT !.built =
                                <<identifier,
                                  RecentAlbumIdentifier(identifier)>>],
                              Return(AccountNode(entry, identifier)))
                    ELSE IF identifier.album_media_id # RECENT_PHOTOS_ALBUM
                    THEN Done(st1, Raise("BrowseError"))
                    ELSE FetchLoop([st1 EXCEPT !.media_items = <<>>,
                                               !.page_token = None])

\* A resume that renders what it has when the remote client raises.
BrowseResume_partial(st, resp) ==
    IF resp.error
    THEN Render(st)
    ELSE
    LET st1 == [st EXCEPT
                    !.media_items = extend(@, resp.mediaItems),
                    !.page_token = resp.nextPageToken]
    IN  IF st1.page_token = None
        THEN Render(st1)
        ELSE FetchLoop(st1)

\* async_browse_media from the answer of client.list_media_items to the next
\* await or the end.
BrowseResume(st, resp) ==
    IF resp.error
    THEN Done(st, Raise("BrowseError"))
    ELSE
    LET st1 == [st EXCEPT
                    !.media_items = extend(@, resp.mediaItems),
                    !.page_token = resp.nextPageToken]
    IN  IF st1.page_token = None
        THEN Render(st1)
        ELSE FetchLoop(st1)

\* ------------------------------------------------- async_resolve_media
\* A resolve that looks the account up and fetches without asking for an
\* item reference first.
ResolveStart_unchecked(reg, st, item) ==
    LET st0 == [st EXCEPT !.op = "resolve", !.item = item]
        parsed == parse_identifier(item)
    IN  IF parsed.raised # ""
        THEN Done(st0, parsed)
        ELSE
        LET identifier == parsed.value
            found == _async_config_entry(reg, identifier.config_entry_id)
        IN  IF found.raised # ""
            THEN Done([st0 EXCEPT !.identifier = identifier], found)
            ELSE [st0 EXCEPT !.identifier = identifier,
                             !.entry = found.value,
                             !.pc = "await_get",
                             !.request =
                                [media_item_id |-> identifier.photo_media_id]]

\* async_resolve_media from its entry to its await or its end.
ResolveStart(reg, st, item) ==
    LET st0 == [st EXCEPT !.op = "resolve", !.item = item]
        parsed == parse_identifier(item)
    IN  IF parsed.raised # ""
        THEN Done(st0, parsed)
        ELSE
        LET identifier == parsed.value
        IN  IF identifier.photo_media_id = None
            THEN Done([st0 EXCEPT !.identifier = identifier],
                      Raise("BrowseError"))
            ELSE
            LET found == _async_config_entry(reg, identifier.config_entry_id)
            IN  IF found.raised # ""
                THEN Done([st0 EXCEPT !.identifier = identifier], found)
                ELSE [st0 EXCEPT !.identifier = identifier,
                                 !.entry = found.value,
                                 !.pc = "await_get",
                                 !.request =
                                    [media_item_id |->
                                        identifier.photo_media_id]]

\* async_resolve_media from the answer of client.get_media_item to its end:
\* the await is not inside a try, so GooglePhotosApiError propagates.
ResolveResume(st, resp) ==
    IF resp.error
    THEN Done(st, Raise("GooglePhotosApiError"))
    ELSE
    LET media_item == resp.item
        is_video == media_item.video
    IN  Done(st, Return(PlayMedia(
                    IF is_video THEN _video_url(media_item)
                    ELSE _media_url(media_item, LARGE_IMAGE_SIZE),
                    media_item.mimeType)))

\* ----------------------------------------------------------------- inputs
Alphabet == {"/", "a", "p", "1"}

\* Every string over Alphabet of length at most n.
StringsUpTo(n) == UNION {[1..k -> Alphabet] : k \in 0..n}

AccountRefs == {<<"1">>, <<"2">>}
Markers == {<<"a">>, <<"p">>, <<"x">>, <<"A">>}
Refs == {RECENT_PHOTOS_ALBUM, <<"r", "e", "c">>, <<"7">>}

\* Three-segment strings with real account, album and item references.
LongInputs ==
    {a \o Slash \o m \o Slash \o r : a \in AccountRefs, m \in Markers, r \in Refs}

\* The identifier strings the host may pass to browse and resolve.
Inputs == StringsUpTo(MaxLen) \cup AccountRefs \cup LongInputs

\* ---------------------------------------------------------------- actions
CodecOff == [stage |-> "off", x |-> NoneRecord, s |-> None, y |-> NoneRecord]

Init ==
    /\ registry \in Registries
    /\ call = [c \in Calls |-> IF c = 1 THEN IdleCall ELSE UnusedCall]
    /\ remote = [c \in Calls |-> NoTraffic]
    /\ codec = CodecOff

\* The host calls async_browse_media(item).
async_browse_media(c) ==
    /\ call[c].pc = "idle"
    /\ \E item \in Inputs :
          LET st == BrowseStart(registry, call[c], item)
          IN  /\ call' = [call EXCEPT ![c] = st]
              /\ remote' = [remote EXCEPT ![c] = Sent(@, st)]
    /\ UNCHANGED <<registry, codec>>

\* client.list_media_items answers and async_browse_media goes on.
list_media_items_returns(c) ==
    /\ call[c].pc = "await_list"
    /\ \E resp \in ListResponses(Offset(c) + Len(remote[c].received)) :
          LET st == BrowseResume(call[c], resp)
          IN  /\ call' = [call EXCEPT ![c] = st]
              /\ remote' = [remote EXCEPT ![c] = Sent(Answered(@, resp), st)]
    /\ UNCHANGED <<registry, codec>>

\* The host calls async_resolve_media(item).
async_resolve_media(c) ==
    /\ call[c].pc = "idle"
    /\ \E item \in Inputs :
          LET st == ResolveStart(registry, call[c], item)
          IN  /\ call' = [call EXCEPT ![c] = st]
              /\ remote' = [remote EXCEPT ![c] = Sent(@, st)]
    /\ UNCHANGED <<registry, codec>>

\* client.get_media_item answers and async_resolve_media goes on.
get_media_item_returns(c) ==
    /\ call[c].pc = "await_get"
    /\ \E resp \in GetResponses(call[c].request.media_item_id) :
          /\ call' = [call EXCEPT ![c] = ResolveResume(call[c], resp)]
          /\ remote' = [remote EXCEPT ![c] = Fetched(@, resp)]
    /\ UNCHANGED <<registry, codec>>

Next ==
    \E c \in Calls :
        \/ async_browse_media(c)
        \/ list_media_items_returns(c)
        \/ async_resolve_media(c)
        \/ get_media_item_returns(c)

Spec == Init /\ [][Next]_vars

\* The event loop resumes a coroutine whose awaited remote call has answered.
FairSpec ==
    /\ Spec
    /\ \A c \in Calls : WF_vars(list_media_items_returns(c))
    /\ \A c \in Calls : WF_vars(get_media_item_returns(c))

\* ------------------------------------------------- two calls interleaved
\* The identifiers of the two concurrent calls: the root, an account, the
\* recent album of either account, an unsupported album and an item.
ConcInputs ==
    {<<>>, <<"1">>,
     <<"1", "/", "a", "/">> \o RECENT_PHOTOS_ALBUM,
     <<"2", "/", "a", "/">> \o RECENT_PHOTOS_ALBUM,
     <<"1", "/", "a", "/", "r", "e", "c">>,
     <<"1", "/", "p", "/", "7">>}

\* The host has two calls to make, in any order and interleaving.
ConcInit ==
    /\ registry = <<Entry1, Entry2>>
    /\ call = [c \in Calls |-> IdleCall]
    /\ remote = [c \in Calls |-> NoTraffic]
    /\ codec = CodecOff

ConcBrowse(c) == async_browse_media(c) /\ call'[c].item \in ConcInputs

ConcResolve(c) == async_resolve_media(c) /\ call'[c].item \in ConcInputs

ConcNext ==
    \E c \in Calls :
        \/ ConcBrowse(c)
        \/ list_media_items_returns(c)
        \/ ConcResolve(c)
        \/ get_media_item_returns(c)

ConcSpec == ConcInit /\ [][ConcNext]_vars

\* ------------------------------------------------------- the codec alone
FieldStrings == StringsUpTo(MaxFieldLen) \cup {RECENT_PHOTOS_ALBUM}

\* The identifier values callers may construct: album and item never both.
ValidIdentifiers ==
    {PhotosIdentifier(a, None, None) : a \in FieldStrings}
    \cup {PhotosIdentifier(a, b, None) : a \in FieldStrings, b \in FieldStrings}
    \cup {PhotosIdentifier(a, None, b) : a \in FieldStrings, b \in FieldStrings}

CodecInit ==
    /\ registry = <<>>
    /\ call = [c \in Calls |-> UnusedCall]
    /\ remote = [c \in Calls |-> NoTraffic]
    /\ codec \in
          {[CodecOff EXCEPT !.stage = "value", !.x = v] : v \in ValidIdentifiers}
          \cup {[CodecOff EXCEPT !.stage = "string", !.s = str] : str \in Inputs}

\* x.as_string()
Encode ==
    /\ codec.stage = "value"
    /\ codec' = [codec EXCEPT !.stage = "encoded", !.s = as_string(codec.x)]
    /\ UNCHANGED <<registry, call, remote>>

\* parse_identifier(s) of a string that as_string produced
DecodeEncoded ==
    /\ codec.stage = "encoded"
    /\ codec' = [codec EXCEPT !.stage = "roundtrip",
                               !.y = parse_identifier(codec.s)]
    /\ UNCHANGED <<registry, call, remote>>

\* parse_identifier(s) of any string
DecodeString ==
    /\ codec.stage = "string"
    /\ codec' = [codec EXCEPT !.stage = "parsed",
                               !.y = parse_identifier(codec.s)]
    /\ UNCHANGED <<registry, call, remote>>

CodecNext == Encode \/ DecodeEncoded \/ DecodeString

CodecSpec == CodecInit /\ [][CodecNext]_vars

\* ------------------------------------------------- vocabulary of the claims
\* The number of "/"-separated segments of a string, counted on the string.
Segments(s) == Cardinality({i \in 1..Len(s) : s[i] = "/"}) + 1

\* The text between the first and the second "/" of a string that has both.
MiddleSegment(s) ==
    LET slashes == {i \in 1..Len(s) : s[i] = "/"}
        first == CHOOSE i \in slashes : \A j \in slashes : i <= j
        second == CHOOSE i \in slashes \ {first} :
                      \A j \in slashes \ {first} : i <= j
    IN  SubSeq(s, first + 1, second - 1)

\* The text before the first "/" of a string, or all of it.
FirstSegment(s) ==
    LET slashes == {i \in 1..Len(s) : s[i] = "/"}
    IN  IF slashes = {} THEN s
        ELSE SubSeq(s, 1, (CHOOSE i \in slashes : \A j \in slashes : i <= j) - 1)

\* The text after the last "/" of a string, or all of it.
LastSegment(s) ==
    LET slashes == {i \in 1..Len(s) : s[i] = "/"}
    IN  IF slashes = {} THEN s
        ELSE SubSeq(s, (CHOOSE i \in slashes : \A j \in slashes : i >= j) + 1,
                    Len(s))

SlashFree(s) == \A i \in 1..Len(s) : s[i] # "/"

SlashFreeIdentifier(x) ==
    /\ SlashFree(x.config_entry_id)
    /\ SlashFree(x.album_media_id)
    /\ SlashFree(x.photo_media_id)

\* Wrong segment count or unrecognized marker.
Malformed(s) ==
    \/ Segments(s) \notin {1, 3}
    \/ /\ Segments(s) = 3
       /\ MiddleSegment(s) \notin {<<"a">>, <<"p">>}

\* <account>/p/<item>
IsItemIdentifier(s) == Segments(s) = 3 /\ MiddleSegment(s) = <<"p">>

\* <account>/a/<album>
IsAlbumIdentifier(s) == Segments(s) = 3 /\ MiddleSegment(s) = <<"a">>

Loaded(reg, account) == \E i \in 1..Len(reg) : reg[i].unique_id = account

Finished(c) == call[c].pc = "done"
Failed(c) == Finished(c) /\ call[c].result.raised # ""
Succeeded(c) == Finished(c) /\ call[c].result.raised = ""

\* ----------------------------------------------------------------- claims

\* C1 as stated, checked under CodecSpec: for every valid identifier x
\* (album and item never both set), parse_identifier(x.as_string()) returns
\* an identifier equal to x in all three fields.
C1_RoundTripEveryIdentifier ==
    codec.stage = "roundtrip" =>
        (codec.y.raised = "" /\ codec.y.value = codec.x)

\* C1 as amended, checked under CodecSpec: for every valid identifier x none
\* of whose fields contains the delimiter "/", parse_identifier(x.as_string())
\* returns an identifier equal to x in all three fields.
C1_RoundTripSlashFree ==
    (codec.stage = "roundtrip" /\ SlashFreeIdentifier(codec.x)) =>
        (codec.y.raised = "" /\ codec.y.value = codec.x)

\* A slash-free account+album identifier has gone through as_string and
\* parse_identifier and come back as itself.
C1_Witness ==
    /\ codec.stage = "roundtrip"
    /\ SlashFreeIdentifier(codec.x)
    /\ codec.x.album_media_id = RECENT_PHOTOS_ALBUM
    /\ Len(codec.x.config_entry_id) > 0
    /\ codec.y.raised = ""
    /\ codec.y.value.album_media_id = RECENT_PHOTOS_ALBUM

\* C2 as stated, checked under CodecSpec: parse_identifier raises the
\* validation error for every string whose segment count is not 1 or 3 and
\* for every 3-segment string whose middle segment is not "a" or "p".
C2_RejectsMalformed ==
    (codec.stage = "parsed" /\ Malformed(codec.s)) =>
        codec.y.raised = "BrowseError"

\* C3 as stated: a finished browse of an <account>/p/<item> identifier has
\* raised an error, never returned a node.
C3_ItemBrowseRejected ==
    \A c \in Calls :
        (Finished(c) /\ call[c].op = "browse" /\ IsItemIdentifier(call[c].item))
            => call[c].result.raised # ""

\* C4 as stated: every failure of browse or resolve is the one typed error,
\* BrowseError, also when the remote client raised during the item fetch.
C4_SingleTypedError ==
    \A c \in Calls : Failed(c) => call[c].result.raised = "BrowseError"

\* C5: when the remote client raises an API error on a page request of an
\* album browse, on the first page or after items were accumulated, the
\* browse is over with BrowseError, has returned no node, and awaits no
\* further page request.
C5_ListingErrorAbortsBrowse ==
    \A c \in Calls :
        (call[c].op = "browse" /\ remote[c].failed) =>
            /\ Finished(c)
            /\ call[c].result.raised = "BrowseError"
            /\ call[c].request = NoneRecord

\* A later page request failed after items had been accumulated, and the
\* browse ended with BrowseError.
C5_Witness ==
    \E c \in Calls :
        /\ call[c].op = "browse"
        /\ remote[c].failed
        /\ Len(remote[c].received) > 0
        /\ Len(call[c].media_items) > 0
        /\ Failed(c)

\* The identifier of the call is malformed, names an account that is not in
\* the registry, or names an album other than "recent" (the empty identifier
\* of a browse is the root and names nothing).
BadIdentifier(c) ==
    LET s == call[c].item
    IN  /\ ~(call[c].op = "browse" /\ s = <<>>)
        /\ \/ Malformed(s)
           \/ ~Loaded(registry, FirstSegment(s))
           \/ IsAlbumIdentifier(s) /\ LastSegment(s) # RECENT_PHOTOS_ALBUM

\* C6 as stated: a browse or resolve whose identifier is malformed, names an
\* unknown account or names an album other than "recent" has failed and
\* has caused no list_media_items and no get_media_item call.
C6_NoRemoteCallOnBadIdentifier ==
    \A c \in Calls :
        (call[c].pc \notin {"unused", "idle"} /\ BadIdentifier(c)) =>
            /\ Failed(c)
            /\ remote[c].nreq = 0
            /\ remote[c].nget = 0

\* Empty, account-only or account+album.
NoItemReference(s) == Segments(s) = 1 \/ IsAlbumIdentifier(s)

\* C7: resolving an identifier that carries no item reference (empty,
\* account-only or account+album) fails with BrowseError and causes no
\* remote call, whether or not the account exists.
C7_ResolveNeedsItem ==
    \A c \in Calls :
        (call[c].op = "resolve" /\ NoItemReference(call[c].item)) =>
            /\ Finished(c)
            /\ call[c].result.raised = "BrowseError"
            /\ remote[c].nget = 0
            /\ remote[c].nreq = 0

\* The album identifier of a loaded account was resolved and rejected.
C7_Witness ==
    \E c \in Calls :
        /\ call[c].op = "resolve"
        /\ IsAlbumIdentifier(call[c].item)
        /\ Loaded(registry, FirstSegment(call[c].item))
        /\ Failed(c)
        /\ remote[c].nget = 0

\* C8: while a page request is outstanding, fewer than MAX_PHOTOS items have
\* been received and the previous answer, if any, carried a continuation
\* token; and an album browse that returned a node had received at least
\* MAX_PHOTOS items or a last answer without a continuation token.
C8_PagingStops ==
    \A c \in Calls :
        /\ call[c].pc = "await_list" =>
              /\ Len(remote[c].received) < MAX_PHOTOS
              /\ remote[c].responded => remote[c].last_token # None
        /\ (Succeeded(c) /\ call[c].op = "browse" /\ remote[c].nreq > 0) =>
              \/ Len(remote[c].received) >= MAX_PHOTOS
              \/ remote[c].last_token = None

\* An album browse returned because the threshold was reached exactly, although
\* the last answer carried a continuation token.
C8_Witness ==
    \E c \in Calls :
        /\ Succeeded(c)
        /\ call[c].op = "browse"
        /\ remote[c].nreq > 1
        /\ Len(remote[c].received) = MAX_PHOTOS
        /\ remote[c].last_token # None

\* C9 as stated, checked under FairSpec: an album browse that has issued a
\* page request eventually returns a node or fails, whatever the remote
\* answers.
C9_AlbumBrowseTerminates ==
    \A c \in Calls : (call[c].pc = "await_list") ~> (call[c].pc = "done")

\* C10: a successful album browse returns exactly one child per item
\* received over all pages, in the order received, and the identifier of
\* each child is <account>/p/<item id> for the browsed account.
C10_OneChildPerItem ==
    \A c \in Calls :
        (Succeeded(c) /\ call[c].op = "browse" /\ remote[c].nreq > 0) =>
            LET kids == call[c].result.value.children
                got == remote[c].received
            IN  /\ Len(kids) = Len(got)
                /\ \A i \in 1..Len(got) :
                      kids[i].identifier =
                          FirstSegment(call[c].item) \o <<"/", "p", "/">>
                              \o got[i].id

\* An album browse returned more children than the threshold, received over
\* several pages.
C10_Witness ==
    \E c \in Calls :
        /\ Succeeded(c)
        /\ call[c].op = "browse"
        /\ remote[c].nreq > 1
        /\ Len(call[c].result.value.children) > MAX_PHOTOS
        /\ Len(call[c].result.value.children) = Len(remote[c].received)


\* <account>, not empty
IsAccountIdentifier(s) == Segments(s) = 1 /\ s # <<>>

\* C11: a browse of an account-only identifier that names a loaded account
\* returns, and what it returns has exactly one child: the "Recent Photos"
\* album node with identifier <account>/a/recent for the browsed account.
C11_AccountBrowseOneAlbum ==
    \A c \in Calls :
        (Finished(c) /\ call[c].op = "browse"
            /\ IsAccountIdentifier(call[c].item)) =>
            /\ Loaded(registry, call[c].item) => Succeeded(c)
            /\ Succeeded(c) =>
                  LET kids == call[c].result.value.children
                  IN  /\ Len(kids) = 1
                      /\ kids[1].identifier =
                            call[c].item \o <<"/", "a", "/">>
                                \o <<"r", "e", "c", "e", "n", "t">>
                      /\ kids[1].title = RECENT_PHOTOS_TITLE
                      /\ kids[1].media_class = "album"

\* The second account of the registry was browsed and returned its album.
C11_Witness ==
    \E c \in Calls :
        /\ Succeeded(c)
        /\ call[c].op = "browse"
        /\ call[c].item = <<"2">>
        /\ Len(call[c].result.value.children) = 1
        /\ call[c].result.value.children[1].media_class = "album"

\* C12: a root browse returns a node with exactly one child per loaded
\* account, in the registry's order, each a directory node that is not
\* playable and is expandable, with the account's unique id as identifier
\* and the account's title; with no loaded account the list is empty.
C12_RootListsAccounts ==
    \A c \in Calls :
        (Finished(c) /\ call[c].op = "browse" /\ call[c].item = <<>>) =>
            /\ Succeeded(c)
            /\ LET kids == call[c].result.value.children
               IN  /\ Len(kids) = Len(registry)
                   /\ \A i \in 1..Len(registry) :
                         /\ kids[i].identifier = registry[i].unique_id
                         /\ kids[i].title = registry[i].title
                         /\ kids[i].media_class = "directory"
                         /\ ~kids[i].can_play
                         /\ kids[i].can_expand

\* A root browse with two loaded accounts returned two children.
C12_Witness ==
    \E c \in Calls :
        /\ Succeeded(c)
        /\ call[c].op = "browse"
        /\ call[c].item = <<>>
        /\ Len(registry) = 2
        /\ Len(call[c].result.value.children) = 2
        /\ call[c].result.value.children[2].title = registry[2].title


\* C13: within one album browse at most one page request is outstanding at
\* a time; the first request carries no continuation token and every later
\* request carries exactly the token of the answer just before it.
C13_SequentialPaging ==
    \A c \in Calls :
        /\ remote[c].pending <= 1
        /\ call[c].pc = "await_list" =>
              /\ remote[c].pending = 1
              /\ call[c].request.page_size = PAGE_SIZE
              /\ call[c].request.page_token =
                    IF remote[c].responded THEN remote[c].last_token ELSE None

\* A later page request is outstanding and carries the token of the answer
\* before it.
C13_Witness ==
    \E c \in Calls :
        /\ call[c].pc = "await_list"
        /\ remote[c].nreq > 1
        /\ remote[c].responded
        /\ Len(remote[c].received) > 0
        /\ call[c].request.page_token = <<"t", "2">>
        /\ remote[c].last_token = <<"t", "2">>


\* Not present at the same time.
NeverBoth(x) == ~(x.album_media_id # None /\ x.photo_media_id # None)

\* C14: the identifier that parse_identifier returned for the input of a
\* call, and every PhotosIdentifier the adapter built for the nodes it
\* returned, never has the album reference and the item reference both set.
C14_AlbumAndItemExclusive ==
    \A c \in Calls :
        /\ call[c].identifier # NoneRecord => NeverBoth(call[c].identifier)
        /\ \A i \in 1..Len(call[c].built) : NeverBoth(call[c].built[i])

\* An album browse returned nodes built from an album identifier that
\* parse_identifier produced and from item identifiers the adapter built.
C14_Witness ==
    \E c \in Calls :
        /\ Succeeded(c)
        /\ call[c].identifier # NoneRecord
        /\ call[c].identifier.album_media_id = RECENT_PHOTOS_ALBUM
        /\ Len(call[c].built) > 1
        /\ call[c].built[2].photo_media_id # None
        /\ call[c].built[2].album_media_id = None


\* What the call would return or raise if it ran alone: computed from its own
\* input and from the answers the remote client gave to it alone.
AloneOutcome(c) ==
    LET start == IF call[c].op = "browse"
                 THEN BrowseStart(registry, IdleCall, call[c].item)
                 ELSE ResolveStart(registry, IdleCall, call[c].item)
    IN  IF start.pc = "done" THEN start.result
        ELSE IF start.pc = "await_get"
        THEN ResolveResume(start, [error |-> remote[c].failed,
                                   item |-> remote[c].fetched]).result
        ELSE IF remote[c].failed THEN Raise("BrowseError")
        ELSE Render([start EXCEPT !.media_items = remote[c].received]).result

ItemIds(items) == {items[i].id : i \in 1..Len(items)}

\* C15, checked under ConcSpec: however two calls interleave at their
\* awaits, the items a call has accumulated are the items the remote client
\* gave to that call, none of them an item given to the other call, and a
\* finished call has the outcome it would have had alone.
C15_CallsIndependent ==
    \A c \in Calls :
        /\ call[c].media_items = remote[c].received
        /\ \A d \in Calls \ {c} :
              ItemIds(call[c].media_items) \cap ItemIds(remote[d].received) = {}
        /\ Finished(c) => call[c].result = AloneOutcome(c)

\* Two album browses were in flight together, each with items of its own,
\* and the first has returned while the second still awaits a page.
C15_Witness ==
    /\ Succeeded(1)
    /\ call[1].op = "browse"
    /\ Len(call[1].result.value.children) > MAX_PHOTOS
    /\ call[2].pc = "await_list"
    /\ Len(call[2].media_items) > 0
    /\ remote[2].nreq > 1


\* An album browse that returned a node.
AlbumBrowseReturned(c) ==
    Succeeded(c) /\ call[c].op = "browse" /\ remote[c].nreq > 0

\* The base URL with "=h<size>" for an item taller than wide and "=w<size>"
\* otherwise, the size given in decimal characters.
SizedUrl(media_item, size) ==
    media_item.baseUrl
        \o (IF media_item.height > media_item.width
            THEN <<"=", "h">> ELSE <<"=", "w">>)
        \o size

\* C16: a resolved video item yields the base URL with "=dv"; a resolved
\* item that is not a video yields it with "=h2048" when height > width and
\* "=w2048" otherwise, also when height = width; the thumbnail of a browsed
\* item follows the same rule with 256, video or not.
C16_UrlDerivation ==
    \A c \in Calls :
        /\ (Succeeded(c) /\ call[c].op = "resolve") =>
              LET got == remote[c].fetched
              IN  /\ call[c].result.value.url =
                        IF got.video THEN got.baseUrl \o <<"=", "d", "v">>
                        ELSE SizedUrl(got, <<"2", "0", "4", "8">>)
                  /\ call[c].result.value.mime_type = got.mimeType
        /\ AlbumBrowseReturned(c) =>
              \A i \in 1..Len(remote[c].received) :
                  call[c].result.value.children[i].thumbnail =
                      SizedUrl(remote[c].received[i], <<"2", "5", "6">>)

\* A square item that is not a video was resolved to its "=w2048" URL.
C16_Witness ==
    \E c \in Calls :
        /\ Succeeded(c)
        /\ call[c].op = "resolve"
        /\ ~remote[c].fetched.video
        /\ remote[c].fetched.height = remote[c].fetched.width
        /\ call[c].result.value.url =
              remote[c].fetched.baseUrl \o <<"=", "w", "2", "0", "4", "8">>

\* C17: every leaf of a returned album browse is not expandable, is playable
\* exactly when its item has video metadata and has media kind video then
\* and image otherwise; every directory and album node that a browse
\* returns, as the node or as a child, is expandable and not playable.
C17_NodeFlags ==
    \A c \in Calls :
        /\ AlbumBrowseReturned(c) =>
              \A i \in 1..Len(remote[c].received) :
                  LET kid == call[c].result.value.children[i]
                      video == remote[c].received[i].video
                  IN  /\ ~kid.can_expand
                      /\ kid.can_play = video
                      /\ kid.media_class = (IF video THEN "video" ELSE "image")
                      /\ kid.media_content_type =
                            (IF video THEN "video" ELSE "image")
        /\ (Succeeded(c) /\ call[c].op = "browse") =>
              LET node == call[c].result.value
              IN  /\ node.media_class = "directory"
                  /\ node.can_expand /\ ~node.can_play
                  /\ \A i \in 1..Len(node.children) :
                        node.children[i].media_class \in {"directory", "album"}
                            => /\ node.children[i].can_expand
                               /\ ~node.children[i].can_play

\* An album browse returned an image leaf and a video leaf.
C17_Witness ==
    \E c \in Calls :
        /\ AlbumBrowseReturned(c)
        /\ Len(call[c].result.value.children) > 1
        /\ call[c].result.value.children[1].media_class = "image"
        /\ ~call[c].result.value.children[1].can_play
        /\ call[c].result.value.children[2].media_class = "video"
        /\ call[c].result.value.children[2].can_play

\* C18: a root browse and an account-level browse cause no remote call and
\* the account nodes under the root carry no children; page requests come
\* from album browses only; a resolve causes at most one get_media_item
\* call and no page request, and a browse no get_media_item call.
C18_LazyBrowsing ==
    \A c \in Calls :
        /\ (call[c].op = "browse"
                /\ (call[c].item = <<>> \/ IsAccountIdentifier(call[c].item))) =>
              /\ remote[c].nreq = 0
              /\ remote[c].nget = 0
        /\ (Succeeded(c) /\ call[c].op = "browse" /\ call[c].item = <<>>) =>
              \A i \in 1..Len(registry) :
                  call[c].result.value.children[i].children = NoneList
        /\ remote[c].nreq > 0 =>
              /\ call[c].op = "browse"
              /\ call[c].identifier.album_media_id = RECENT_PHOTOS_ALBUM
        /\ call[c].op = "resolve" =>
              /\ remote[c].nget <= 1
              /\ remote[c].nreq = 0
        /\ call[c].op = "browse" => remote[c].nget = 0

\* A root browse over two accounts returned bare account nodes without a
\* remote call.
C18_Witness ==
    \E c \in Calls :
        /\ Succeeded(c)
        /\ call[c].op = "browse"
        /\ call[c].item = <<>>
        /\ Len(registry) = 2
        /\ call[c].result.value.children[1].children = NoneList
        /\ remote[c].nreq = 0
        /\ remote[c].nget = 0


\* The account a child of the call's result was built for: the i-th loaded
\* account under the root, the browsed account otherwise.
ChildAccount(c, i) ==
    IF call[c].item = <<>> THEN registry[i].unique_id
    ELSE FirstSegment(call[c].item)

\* Browsing s now would not be rejected: it awaits a page or returns a node.
BrowseAccepts(s) ==
    LET st == BrowseStart(registry, IdleCall, s)
    IN  st.pc = "await_list" \/ (st.pc = "done" /\ st.result.raised = "")

\* Resolving s now would get as far as fetching the item.
ResolveAccepts(s) == ResolveStart(registry, IdleCall, s).pc = "await_get"

C20_ResultSizeBound ==
    \A c \in Calls :
        /\ call[c].pc = "await_list" => Len(call[c].media_items) < MAX_PHOTOS
        /\ AlbumBrowseReturned(c) =>
              /\ Len(call[c].result.value.children) <= 149
              /\ Len(call[c].result.value.children)
                    <= (MAX_PHOTOS - 1) + PAGE_SIZE

\* An album browse returned 149 children: 49 items, then a full page.
C20_Witness ==
    \E c \in Calls :
        /\ AlbumBrowseReturned(c)
        /\ Len(call[c].result.value.children) = 149
        /\ Len(call[c].result.value.children) > MAX_PHOTOS

====
